---- MODULE Spec2Model ----
(***************************************************************************)
(* Model of the SEACE scraper: run_scraper (src/scraper.py), its helper    *)
(* functions, and the POST /scrape endpoint (src/main.py and               *)
(* src/mi-api-seace/main.py).                                              *)
(*                                                                         *)
(* Text is a sequence of one-character strings.  None is the empty tuple   *)
(* and a present value x is the one-element tuple <<x>>.  A datetime is    *)
(* the tuple <<year, month, day, hour, minute, second>>, compared field by *)
(* field as Python compares datetimes.                                     *)
(***************************************************************************)
EXTENDS Integers, Sequences, FiniteSets, TLC

VARIABLES
    listing,            \* the site: the notices of the listing, newest first or not
    page_size,          \* the site: cards shown per page
    site_page,          \* the site: page currently rendered (0 before navigation)
    fecha_inicio_str,   \* run_scraper argument
    fecha_fin_str,      \* run_scraper argument
    max_items,          \* run_scraper argument (None or an integer)
    items_data,         \* run_scraper local: the result list
    f_inicio,           \* run_scraper local (None until parsed)
    f_fin,              \* run_scraper local (None until parsed)
    page_count,         \* run_scraper local
    stop_scraping,      \* run_scraper local
    limit_count,        \* run_scraper local
    cards,              \* run_scraper local: handles returned by query_selector_all
    card_i,             \* run_scraper local: position of the for loop in cards
    playwright,         \* "off" | "on" | "stopped": the async_playwright() context
    browser,            \* "none" | "open" | "closed"
    pc,                 \* position of run_scraper
    exc,                \* the exception in flight ("none" when there is none)
    returned,           \* None until run_scraper returns, then <<its value>>
    verdict,            \* history: what the loop body did with the last card
    card_faults,        \* environment: whether reads of a card may fail
    fault,              \* history: what raised in the last step ("none": nothing)
    clicks,             \* history: activations of the next-page control
    api,                \* the endpoint: request, position, response
    call,               \* a helper function under test: name, arguments, result
    peer                \* a second invocation of run_scraper, suspended: its locals

vars == <<listing, page_size, site_page, fecha_inicio_str, fecha_fin_str,
          max_items, items_data, f_inicio, f_fin, page_count, stop_scraping,
          limit_count, cards, card_i, playwright, browser, pc, exc, returned,
          verdict, card_faults, fault, clicks, api, call, peer>>

site_vars == <<listing, page_size, site_page>>
arg_vars == <<fecha_inicio_str, fecha_fin_str, max_items, card_faults>>
loop_vars == <<page_count, stop_scraping, limit_count, cards, card_i>>
other_vars == <<api, call, peer>>

None == <<>>
Some(x) == <<x>>

(***************************************************************************)
(* Bounds of the model.                                                    *)
(***************************************************************************)
MaxCards == 2           \* longest listing drawn in Init
DefaultPageSize == 1    \* cards per page before the page-size switch
LargestPageSize == 2    \* cards per page after a successful switch ("100")

(***************************************************************************)
(* Text and dates.                                                         *)
(***************************************************************************)
Digits == <<"0", "1", "2", "3", "4", "5", "6", "7", "8", "9">>

Digit(n) == Digits[n + 1]

IsDigit(c) == \E n \in 0..9 : Digits[n + 1] = c

DigitValue(c) == CHOOSE n \in 0..9 : Digits[n + 1] = c

RECURSIVE NumberOf(_)
NumberOf(s) ==
    IF s = <<>> THEN 0
    ELSE 10 * NumberOf(SubSeq(s, 1, Len(s) - 1)) + DigitValue(s[Len(s)])

AllDigits(s) == \A i \in 1..Len(s) : IsDigit(s[i])

\* strftime("%d/%m/%Y") of a datetime
Strftime(dt) ==
    << Digit(dt[3] \div 10), Digit(dt[3] % 10), "/",
       Digit(dt[2] \div 10), Digit(dt[2] % 10), "/",
       Digit(dt[1] \div 1000), Digit((dt[1] \div 100) % 10),
       Digit((dt[1] \div 10) % 10), Digit(dt[1] % 10) >>

IsLeap(y) == (y % 4 = 0) /\ ((y % 100 # 0) \/ (y % 400 = 0))

DaysInMonth(y, m) ==
    IF m = 2 THEN (IF IsLeap(y) THEN 29 ELSE 28)
    ELSE IF m \in {4, 6, 9, 11} THEN 30 ELSE 31

SlashPositions(s) == {i \in 1..Len(s) : s[i] = "/"}

\* datetime.strptime(s, "%d/%m/%Y"): <<datetime>>, or None for ValueError
\* a parser that checks the shape of the text and not the calendar
StrptimeAnyDay(s) ==
    IF /\ Len(s) = 10 /\ s[3] = "/" /\ s[6] = "/"
       /\ AllDigits(SubSeq(s, 1, 2)) /\ AllDigits(SubSeq(s, 4, 5))
       /\ AllDigits(SubSeq(s, 7, 10))
       /\ NumberOf(SubSeq(s, 4, 5)) \in 1..12
       /\ NumberOf(SubSeq(s, 1, 2)) \in 1..31
    THEN Some(<<NumberOf(SubSeq(s, 7, 10)), NumberOf(SubSeq(s, 4, 5)),
                NumberOf(SubSeq(s, 1, 2)), 0, 0, 0>>)
    ELSE None

Strptime(s) ==
    LET sl == SlashPositions(s) IN
    IF Cardinality(sl) # 2 THEN None
    ELSE
      LET p1 == CHOOSE i \in sl : \A j \in sl : i <= j
          p2 == CHOOSE i \in sl : \A j \in sl : j <= i
          dd == SubSeq(s, 1, p1 - 1)
          mm == SubSeq(s, p1 + 1, p2 - 1)
          yy == SubSeq(s, p2 + 1, Len(s))
      IN  IF /\ Len(dd) \in 1..2 /\ Len(mm) \in 1..2 /\ Len(yy) = 4
             /\ AllDigits(dd) /\ AllDigits(mm) /\ AllDigits(yy)
          THEN LET d == NumberOf(dd)
                   m == NumberOf(mm)
                   y == NumberOf(yy)
               IN  IF m \in 1..12 /\ y >= 1 /\ d >= 1 /\ d <= DaysInMonth(y, m)
                   THEN Some(<<y, m, d, 0, 0, 0>>)
                   ELSE None
          ELSE None

\* datetime.replace(hour=23, minute=59, second=59)
ReplaceEndOfDay(dt) == <<dt[1], dt[2], dt[3], 23, 59, 59>>

RECURSIVE SeqLess(_, _)
SeqLess(a, b) ==
    IF a = <<>> \/ b = <<>> THEN FALSE
    ELSE IF a[1] # b[1] THEN a[1] < b[1]
    ELSE SeqLess(Tail(a), Tail(b))

\* datetime a < datetime b
DtLess(a, b) == SeqLess(a, b)

(***************************************************************************)
(* inferir_region (lines 79-90) on text as sequences of characters.        *)
(***************************************************************************)
DEPARTAMENTOS_PERU ==
    << <<"A", "M", "A", "Z", "O", "N", "A", "S">>,
       <<"A", "N", "C", "A", "S", "H">>,
       <<"A", "P", "U", "R", "I", "M", "A", "C">>,
       <<"A", "R", "E", "Q", "U", "I", "P", "A">>,
       <<"A", "Y", "A", "C", "U", "C", "H", "O">>,
       <<"C", "A", "J", "A", "M", "A", "R", "C", "A">>,
       <<"C", "A", "L", "L", "A", "O">>,
       <<"C", "U", "S", "C", "O">>,
       <<"H", "U", "A", "N", "C", "A", "V", "E", "L", "I", "C", "A">>,
       <<"H", "U", "A", "N", "U", "C", "O">>,
       <<"I", "C", "A">>,
       <<"J", "U", "N", "I", "N">>,
       <<"L", "A", " ", "L", "I", "B", "E", "R", "T", "A", "D">>,
       <<"L", "A", "M", "B", "A", "Y", "E", "Q", "U", "E">>,
       <<"L", "I", "M", "A">>,
       <<"L", "O", "R", "E", "T", "O">>,
       <<"M", "A", "D", "R", "E", " ", "D", "E", " ", "D", "I", "O", "S">>,
       <<"M", "O", "Q", "U", "E", "G", "U", "A">>,
       <<"P", "A", "S", "C", "O">>,
       <<"P", "I", "U", "R", "A">>,
       <<"P", "U", "N", "O">>,
       <<"S", "A", "N", " ", "M", "A", "R", "T", "I", "N">>,
       <<"T", "A", "C", "N", "A">>,
       <<"T", "U", "M", "B", "E", "S">>,
       <<"U", "C", "A", "Y", "A", "L", "I">> >>

NO_IDENTIFICADO == <<"N", "O", " ", "I", "D", "E", "N", "T", "I", "F", "I", "C", "A", "D", "O">>

LowerCase == <<"a", "b", "c", "d", "e", "f", "g", "h", "i", "j", "k", "l", "m", "n", "o", "p", "q", "r", "s", "t", "u", "v", "w", "x", "y", "z", "ó">>

UpperCase == <<"A", "B", "C", "D", "E", "F", "G", "H", "I", "J", "K", "L", "M", "N", "O", "P", "Q", "R", "S", "T", "U", "V", "W", "X", "Y", "Z", "Ó">>

\* str.upper(), character by character
UpperChar(c) ==
    IF \E i \in 1..Len(LowerCase) : LowerCase[i] = c
    THEN UpperCase[CHOOSE i \in 1..Len(LowerCase) : LowerCase[i] = c]
    ELSE c

Upper(t) == [i \in 1..Len(t) |-> UpperChar(t[i])]

IsSpace(c) == c \in {" ", "\n", "\t"}

\* str.strip()
Strip(t) ==
    LET keep == {i \in 1..Len(t) : ~IsSpace(t[i])}
    IN  IF keep = {} THEN <<>>
        ELSE SubSeq(t, CHOOSE i \in keep : \A j \in keep : i <= j,
                       CHOOSE i \in keep : \A j \in keep : j <= i)

\* needle in hay
Contains(hay, needle) ==
    \E i \in 1..(Len(hay) - Len(needle) + 1) :
        SubSeq(hay, i, i + Len(needle) - 1) = needle

\* whether UBICACI[ÓO]N matches at position p of t
LabelAt(t, p) ==
    /\ p + 8 <= Len(t)
    /\ SubSeq(t, p, p + 6) = <<"U", "B", "I", "C", "A", "C", "I">>
    /\ t[p + 7] \in {"Ó", "O"}
    /\ t[p + 8] = "N"

IsSeparator(c) == c = ":" \/ IsSpace(c)

IsPhraseChar(c) == c # ":" /\ c # "\n"

\* the end of the longest run of characters of one class that starts at p
\* (p - 1 when t[p] is not of the class): separators, or phrase characters
RunEnd(t, p, separators) ==
    LET stops == {i \in p..Len(t) :
                    IF separators THEN ~IsSeparator(t[i])
                    ELSE ~IsPhraseChar(t[i])}
    IN  IF stops = {} THEN Len(t)
        ELSE (CHOOSE i \in stops : \A j \in stops : i <= j) - 1

\* the group of UBICACI[ÓO]N[:\s]+([^:\n]+) for the label at p, None when the
\* pattern does not match there: the separators are taken greedily and
\* given back one by one until a phrase character follows
GroupAt(t, p) ==
    LET q == p + 9
        sepEnd == RunEnd(t, q, TRUE)
        starts == {g \in (q + 1)..(sepEnd + 1) : g <= Len(t) /\ IsPhraseChar(t[g])}
    IN  IF starts = {} THEN None
        ELSE LET g == CHOOSE x \in starts : \A y \in starts : y <= x
             IN  Some(SubSeq(t, g, RunEnd(t, g, FALSE)))

\* re.search(r"UBICACI[ÓO]N[:\s]+([^:\n]+)", t): group(1) of the leftmost
\* match, None when there is no match
SearchUbicacion(t) ==
    LET hits == {p \in 1..Len(t) : LabelAt(t, p) /\ GroupAt(t, p) # None}
    IN  IF hits = {} THEN None
        ELSE GroupAt(t, CHOOSE p \in hits : \A r \in hits : p <= r)

\* the positions in DEPARTAMENTOS_PERU of the names that occur in t
NamedIn(t) ==
    {i \in 1..Len(DEPARTAMENTOS_PERU) : Contains(t, DEPARTAMENTOS_PERU[i])}

\* line 86: what is returned for a labelled phrase that names a department
FromLabel(posible_ubi) == Strip(posible_ubi)

inferir_region(entidad, texto_tarjeta) ==
    LET texto_busqueda == Upper(entidad \o <<" ">> \o texto_tarjeta)
        match_ubi == SearchUbicacion(texto_busqueda)
        anywhere == NamedIn(texto_busqueda)
    IN  IF match_ubi # None /\ NamedIn(match_ubi[1]) # {}
        THEN FromLabel(match_ubi[1])
        ELSE IF anywhere # {}
             THEN DEPARTAMENTOS_PERU[CHOOSE i \in anywhere :
                                        \A j \in anywhere : i <= j]
             ELSE NO_IDENTIFICADO

(***************************************************************************)
(* extraer_tipo_exacto (lines 47-77).  The description is None when it is  *)
(* not a string and <<text>> when it is one.                               *)
(***************************************************************************)
\* str.startswith
StartsWith(t, prefix) ==
    Len(prefix) <= Len(t) /\ SubSeq(t, 1, Len(prefix)) = prefix

\* lines 57-64: the explicit prefixes and markers, in the order of the tests
PrefixTests ==
    << [tipo |-> "Bien", prefix |-> Some(<<"B", "I", "E", "N">>), marker |-> <<"B", "I", "E", "N", ":">>],
       [tipo |-> "Servicio", prefix |-> Some(<<"S", "E", "R", "V", "I", "C", "I", "O">>), marker |-> <<"S", "E", "R", "V", "I", "C", "I", "O", ":">>],
       [tipo |-> "Obra", prefix |-> Some(<<"O", "B", "R", "A">>), marker |-> <<"O", "B", "R", "A", ":">>],
       [tipo |-> "Consultoría", prefix |-> None, marker |-> <<"C", "O", "N", "S", "U", "L", "T", "O", "R">>] >>

\* whether test i of lines 57-64 succeeds on d_upper
PrefixTestHolds(i, d_upper) ==
    \/ /\ PrefixTests[i].prefix # None
       /\ StartsWith(d_upper, PrefixTests[i].prefix[1])
    \/ Contains(d_upper, PrefixTests[i].marker)

\* line 67
keywords_obra ==
    { <<"M", "E", "J", "O", "R", "A", "M", "I", "E", "N", "T", "O">>,
      <<"C", "R", "E", "A", "C", "I", "O", "N">>,
      <<"R", "E", "H", "A", "B", "I", "L", "I", "T", "A", "C", "I", "O", "N">>,
      <<"C", "O", "N", "S", "T", "R", "U", "C", "C", "I", "O", "N">>,
      <<"I", "N", "S", "T", "A", "L", "A", "C", "I", "O", "N">>,
      <<"E", "J", "E", "C", "U", "C", "I", "O", "N", " ", "D", "E", " ", "O", "B", "R", "A">> }

\* line 70
keywords_servicio ==
    { <<"M", "A", "N", "T", "E", "N", "I", "M", "I", "E", "N", "T", "O">>,
      <<"A", "L", "Q", "U", "I", "L", "E", "R">>,
      <<"S", "E", "G", "U", "R", "I", "D", "A", "D">>,
      <<"V", "I", "G", "I", "L", "A", "N", "C", "I", "A">>,
      <<"L", "I", "M", "P", "I", "E", "Z", "A">>,
      <<"T", "R", "A", "N", "S", "P", "O", "R", "T", "E">>,
      <<"S", "E", "G", "U", "R", "O">>,
      <<"L", "O", "C", "A", "C", "I", "O", "N">>,
      <<"C", "O", "N", "F", "E", "C", "C", "I", "O", "N">>,
      <<"S", "E", "R", "V", "I", "C", "I", "O">> }

\* line 73
keywords_bien ==
    { <<"A", "D", "Q", "U", "I", "S", "I", "C", "I", "O", "N">>,
      <<"C", "O", "M", "P", "R", "A">>,
      <<"S", "U", "M", "I", "N", "I", "S", "T", "R", "O">>,
      <<"C", "A", "M", "I", "O", "N", "E", "T", "A">>,
      <<"C", "O", "M", "B", "U", "S", "T", "I", "B", "L", "E">>,
      <<"E", "Q", "U", "I", "P", "O">>,
      <<"M", "A", "T", "E", "R", "I", "A", "L">>,
      <<"I", "N", "S", "U", "M", "O">> }

\* any(k in d_upper for k in keywords)
AnyKeyword(d_upper, keywords) == \E k \in keywords : Contains(d_upper, k)

\* a fallback that looks at the Service keywords first
KeywordFallbackServiceFirst(d_upper) ==
    IF AnyKeyword(d_upper, keywords_servicio) THEN "Servicio"
    ELSE IF AnyKeyword(d_upper, keywords_obra) THEN "Obra"
    ELSE IF AnyKeyword(d_upper, keywords_bien) THEN "Bien"
    ELSE "Otro"

\* lines 66-77: the keywords, when no prefix or marker decided
KeywordFallback(d_upper) ==
    IF AnyKeyword(d_upper, keywords_obra) THEN "Obra"
    ELSE IF AnyKeyword(d_upper, keywords_servicio) THEN "Servicio"
    ELSE IF AnyKeyword(d_upper, keywords_bien) THEN "Bien"
    ELSE "Otro"

extraer_tipo_exacto(desc) ==
    IF desc = None THEN "Otro"
    ELSE LET d_upper == Strip(Upper(desc[1]))
             holds == {i \in 1..Len(PrefixTests) : PrefixTestHolds(i, d_upper)}
         IN  IF holds # {}
             THEN PrefixTests[CHOOSE i \in holds : \A j \in holds : i <= j].tipo
             ELSE KeywordFallback(d_upper)

(***************************************************************************)
(* The site.  A notice has a publication date <<year, month, day>> (None   *)
(* when its card shows no date) and may or may not carry a hyperlink to    *)
(* its detail page.  The listing is cut into pages of page_size cards.     *)
(***************************************************************************)
SEACE_URL ==
    [origin |-> "https://prod6.seace.gob.pe",
     path |-> "/buscador-publico/contrataciones"]

\* page.query_selector_all('div[class*="bg-fondo-section"]'): the handles of
\* the cards of the rendered page, in document order
PageCards ==
    LET first == (site_page - 1) * page_size + 1
        last == IF site_page * page_size < Len(listing)
                THEN site_page * page_size ELSE Len(listing)
    IN  [i \in 1..(IF last >= first THEN last - first + 1 ELSE 0)
            |-> first + i - 1]

\* page.query_selector("button[aria-label*='iguiente']:not([disabled])")
NextButton == site_page * page_size < Len(listing)

\* card.inner_text(), as far as parse_fecha_regex reads it: whether the
\* label "Publicación" precedes the date, and the first dd/mm/yyyy token
InnerText(k) ==
    [publicacion |-> TRUE,
     token |-> IF listing[k].date = None THEN None
               ELSE Some(Strftime(<<listing[k].date[1], listing[k].date[2],
                                    listing[k].date[3], 0, 0, 0>>))]

\* card.inner_html(), as far as select_one reads it: the href of the first
\* anchor whose href contains '/buscador-publico/contrataciones/'
InnerHtmlHref(k) ==
    IF listing[k].link
    THEN Some(<<"/buscador-publico/contrataciones/", k>>)
    ELSE None

\* urljoin(base, href) for a root-relative href
Urljoin(base, href) == [origin |-> base.origin, path |-> href]

(***************************************************************************)
(* The two searches of parse_fecha_regex (lines 35 and 39) on a text:      *)
(* whether the labelled pattern matched, and the dd/mm/yyyy token that the *)
(* pattern that matched captured (None when neither matched).              *)
(***************************************************************************)
\* Publicaci[oó]n, ignoring case, at position p of t
PublicacionAt(t, p) ==
    /\ p + 10 <= Len(t)
    /\ Upper(SubSeq(t, p, p + 8)) = <<"P", "U", "B", "L", "I", "C", "A", "C", "I">>
    /\ UpperChar(t[p + 9]) \in {"O", "Ó"}
    /\ UpperChar(t[p + 10]) = "N"

\* \d{2}/\d{2}/\d{4} at position q of t
FechaAt(t, q) ==
    /\ q + 9 <= Len(t)
    /\ \A i \in {0, 1, 3, 4, 6, 7, 8, 9} : IsDigit(t[q + i])
    /\ t[q + 2] = "/"
    /\ t[q + 5] = "/"

\* where the token of Publicaci[oó]n.*?(\d{2}/\d{2}/\d{4}) may start for the
\* label at p: "." does not match a line break
FechasAfter(t, p) ==
    {q \in (p + 11)..Len(t) :
        FechaAt(t, q) /\ \A j \in (p + 11)..(q - 1) : t[j] # "\n"}

SearchFecha(t) ==
    LET labelled == {p \in 1..Len(t) : PublicacionAt(t, p) /\ FechasAfter(t, p) # {}}
        generic == {q \in 1..Len(t) : FechaAt(t, q)}
        first(S) == CHOOSE x \in S : \A y \in S : x <= y
    IN  IF labelled # {}
        THEN LET q == first(FechasAfter(t, first(labelled)))
             IN  [publicacion |-> TRUE, token |-> Some(SubSeq(t, q, q + 9))]
        ELSE IF generic # {}
        THEN [publicacion |-> FALSE,
              token |-> Some(SubSeq(t, first(generic), first(generic) + 9))]
        ELSE [publicacion |-> FALSE, token |-> None]

(***************************************************************************)
(* parse_fecha_regex: [raised, value].  The labelled token is parsed       *)
(* outside any try block; the generic token inside one.                    *)
(***************************************************************************)
parse_fecha_regex(texto) ==
    IF texto.token = None THEN [raised |-> FALSE, value |-> None]
    ELSE LET fecha == Strptime(texto.token[1])
         IN  IF texto.publicacion
             THEN [raised |-> fecha = None, value |-> fecha]
             ELSE [raised |-> FALSE, value |-> fecha]

(***************************************************************************)
(* The decisions of the page loop.                                         *)
(***************************************************************************)
max_paginas == 300

NO_LIMIT == 999999

LimitCount(mi) == IF mi # None /\ mi[1] > 0 THEN mi[1] ELSE NO_LIMIT

\* a cap test that lets one record too many through
CapExceeded(items, limit) == Len(items) > limit

\* lines 151 and 163: len(items_data) >= limit_count
CapReached(items, limit) == Len(items) >= limit

\* an end bound that skips nothing
NeverTooNew(fecha_obj, fin) == FALSE

\* line 172: fecha_obj > f_fin
TooNew(fecha_obj, fin) == DtLess(fin, fecha_obj)

\* no start bound
NeverTooOld(fecha_obj, inicio) == FALSE

\* a start bound that also rejects the start date itself
TooOldOrOnStart(fecha_obj, inicio) == ~DtLess(inicio, fecha_obj)

\* line 173: fecha_obj < f_inicio
TooOld(fecha_obj, inicio) == DtLess(fecha_obj, inicio)

\* a ceiling of one page
WhileOnePage(count, stop) == count <= 1 /\ ~stop

\* a while test without the page ceiling
WhileIgnoresCeiling(count, stop) == ~stop

\* line 150: while page_count <= max_paginas and not stop_scraping
WhileContinues(count, stop) == count <= max_paginas /\ ~stop

\* line 214: enlace = urljoin(SEACE_URL, link_elem["href"]) if link_elem else None
Enlace(href) == IF href # None THEN Some(Urljoin(SEACE_URL, href[1])) ELSE None

\* a link test that lets every card through
AnyEnlace(enlace) == TRUE

\* line 216: "if not enlace: continue" lets the card through
HasEnlace(enlace) == enlace # None

\* a loop that goes on after the stop flag is set
NeverBreaks(stop) == FALSE

\* lines 175-176 and 239-240: the stop flag breaks out of both loops
BreakOnStop(stop) == stop

\* a loop body that takes a card after the end bound for the end of the
\* listing: it sets the stop flag instead of skipping the card
CardBodyStopsOnTooNew(k, text_ok, html_ok, inicio, fin) ==
    LET skip(v, failed) ==
            [verdict |-> v, item |-> None, stop |-> FALSE, failed |-> failed]
        parsed == parse_fecha_regex(InnerText(k))
    IN  IF ~text_ok THEN skip("error", TRUE)
        ELSE IF parsed.raised THEN skip("error", FALSE)
        ELSE IF parsed.value = None THEN skip("no_date", FALSE)
        ELSE IF TooNew(parsed.value[1], fin)
             THEN [verdict |-> "too_new", item |-> None, stop |-> TRUE,
                   failed |-> FALSE]
        ELSE IF TooOld(parsed.value[1], inicio)
             THEN [verdict |-> "too_old", item |-> None, stop |-> TRUE,
                   failed |-> FALSE]
        ELSE IF ~html_ok THEN skip("error", TRUE)
        ELSE IF ~HasEnlace(Enlace(InnerHtmlHref(k))) THEN skip("no_link", FALSE)
        ELSE [verdict |-> "accepted",
              item |-> Some([fecha_publicacion |-> Strftime(parsed.value[1]),
                             url |-> Enlace(InnerHtmlHref(k))]),
              stop |-> FALSE, failed |-> FALSE]

\* What the body of "for card in cards" does with card k, given whether the
\* two reads of the card succeed: the verdict, the record appended (None
\* when none is), whether the stop flag is set, and whether a read failed.
CardBody(k, text_ok, html_ok, inicio, fin) ==
    LET skip(v, failed) ==
            [verdict |-> v, item |-> None, stop |-> FALSE, failed |-> failed]
        parsed == parse_fecha_regex(InnerText(k))
    IN  IF ~text_ok THEN skip("error", TRUE)
        ELSE IF parsed.raised THEN skip("error", FALSE)
        ELSE IF parsed.value = None THEN skip("no_date", FALSE)
        ELSE IF TooNew(parsed.value[1], fin) THEN skip("too_new", FALSE)
        ELSE IF TooOld(parsed.value[1], inicio)
             THEN [verdict |-> "too_old", item |-> None, stop |-> TRUE,
                   failed |-> FALSE]
        ELSE IF ~html_ok THEN skip("error", TRUE)
        ELSE IF ~HasEnlace(Enlace(InnerHtmlHref(k))) THEN skip("no_link", FALSE)
        ELSE [verdict |-> "accepted",
              item |-> Some([fecha_publicacion |-> Strftime(parsed.value[1]),
                             url |-> Enlace(InnerHtmlHref(k))]),
              stop |-> FALSE, failed |-> FALSE]

(***************************************************************************)
(* run_scraper, one action per await point.  An awaited call either        *)
(* succeeds or raises; which, is the environment's choice.                 *)
(***************************************************************************)
\* an except clause that logs and does not raise
ExceptSwallows(e) == "none"

\* lines 250-252: except Exception as e: log, raise.  The exception that is
\* in flight when the except clause is left.
ExceptClause(e) == e

\* lines 105-115: items_data = [], the two strptime calls and the except
\* ValueError that returns []
ParseDates ==
    /\ pc = "start"
    /\ items_data' = <<>>
    /\ LET inicio == Strptime(fecha_inicio_str)
           fin == Strptime(fecha_fin_str)
       IN  IF inicio = None \/ fin = None
           THEN /\ pc' = "done"
                /\ returned' = Some(<<>>)
                /\ UNCHANGED <<f_inicio, f_fin>>
           ELSE /\ f_inicio' = inicio
                /\ f_fin' = Some(ReplaceEndOfDay(fin[1]))
                /\ pc' = "launch"
                /\ UNCHANGED returned
    /\ UNCHANGED <<site_vars, arg_vars, loop_vars, playwright, browser, exc,
                   verdict, fault, clicks, other_vars>>

\* lines 117-121: async with async_playwright(), chromium.launch
Launch ==
    /\ pc = "launch"
    /\ \E ok \in BOOLEAN :
         IF ok
         THEN /\ playwright' = "on"
              /\ browser' = "open"
              /\ pc' = "new_context"
              /\ fault' = "none"
              /\ UNCHANGED exc
         ELSE /\ playwright' = "stopped"
              /\ pc' = "raised"
              /\ exc' = "launch"
              /\ fault' = "launch"
              /\ UNCHANGED browser
    /\ UNCHANGED <<site_vars, arg_vars, loop_vars, items_data, f_inicio, f_fin,
                   returned, verdict, clicks, other_vars>>

\* lines 122-123: browser.new_context and context.new_page, which stand
\* before the try of line 125
NewContext ==
    /\ pc = "new_context"
    /\ \E ok \in BOOLEAN :
         IF ok
         THEN /\ pc' = "goto"
              /\ fault' = "none"
              /\ UNCHANGED <<playwright, exc>>
         ELSE /\ playwright' = "stopped"
              /\ pc' = "raised"
              /\ exc' = "new_context"
              /\ fault' = "new_context"
    /\ UNCHANGED <<site_vars, arg_vars, loop_vars, items_data, f_inicio, f_fin,
                   browser, returned, verdict, clicks, other_vars>>

\* line 127: page.goto(SEACE_URL)
Goto ==
    /\ pc = "goto"
    /\ \E ok \in BOOLEAN :
         IF ok
         THEN /\ site_page' = 1
              /\ pc' = "wait_selector"
              /\ fault' = "none"
              /\ UNCHANGED exc
         ELSE /\ pc' = "finally"
              /\ exc' = ExceptClause("goto")
              /\ fault' = "goto"
              /\ UNCHANGED site_page
    /\ UNCHANGED <<listing, page_size, arg_vars, loop_vars, items_data,
                   f_inicio, f_fin, playwright, browser, returned, verdict,
                   clicks, other_vars>>

\* lines 130-133: wait_for_selector inside try / bare except
WaitSelector ==
    /\ pc = "wait_selector"
    /\ \E ok \in BOOLEAN : fault' = IF ok THEN "none" ELSE "wait_selector"
    /\ pc' = "page_size"
    /\ UNCHANGED <<site_vars, arg_vars, loop_vars, items_data, f_inicio, f_fin,
                   playwright, browser, exc, returned, verdict, clicks,
                   other_vars>>

\* lines 136-148: the switch to 100 results inside try / except Exception,
\* then the initialisation of the loop
PageSize ==
    /\ pc = "page_size"
    /\ \E ok \in BOOLEAN :
         IF ok
         THEN /\ page_size' = LargestPageSize
              /\ fault' = "none"
         ELSE /\ fault' = "page_size"
              /\ UNCHANGED page_size
    /\ page_count' = 1
    /\ stop_scraping' = FALSE
    /\ limit_count' = LimitCount(max_items)
    /\ pc' = "while"
    /\ UNCHANGED <<listing, site_page, arg_vars, cards, card_i, items_data,
                   f_inicio, f_fin, playwright, browser, exc, returned,
                   verdict, clicks, other_vars>>

\* lines 150-160: the while test, the cap test, query_selector_all, the
\* empty-page test
QueryCards ==
    /\ pc = "while"
    /\ IF ~WhileContinues(page_count, stop_scraping)
          \/ CapReached(items_data, limit_count)
       THEN /\ pc' = "finally"
            /\ fault' = "none"
            /\ UNCHANGED <<cards, card_i, exc>>
       ELSE \E ok \in BOOLEAN :
              IF ok
              THEN /\ cards' = PageCards
                   /\ card_i' = 1
                   /\ pc' = IF PageCards = <<>> THEN "finally" ELSE "for_card"
                   /\ fault' = "none"
                   /\ UNCHANGED exc
              ELSE /\ pc' = "finally"
                   /\ exc' = ExceptClause("query_selector_all")
                   /\ fault' = "query_selector_all"
                   /\ UNCHANGED <<cards, card_i>>
    /\ UNCHANGED <<site_vars, arg_vars, page_count, stop_scraping, limit_count,
                   items_data, f_inicio, f_fin, playwright, browser, returned,
                   verdict, clicks, other_vars>>

\* a per-card except clause that lets the exception through
CardExceptReraises(e) == e

\* lines 234-235: except Exception: continue.  The exception that is in
\* flight when the clause is left: none.
CardExceptClause(e) == "none"

\* lines 162-235: one iteration of "for card in cards"; the except Exception
\* of line 234 catches whatever the body raises
ProcessCard ==
    /\ pc = "for_card"
    /\ card_i <= Len(cards)
    /\ ~CapReached(items_data, limit_count)
    /\ \E text_ok, html_ok \in (IF card_faults THEN BOOLEAN ELSE {TRUE}) :
         LET r == CardBody(cards[card_i], text_ok, html_ok,
                           f_inicio[1], f_fin[1])
             inflight == IF r.verdict = "error" THEN CardExceptClause("card")
                         ELSE "none"
         IN  /\ r.failed => card_faults
             /\ fault' = IF r.verdict = "error" THEN "card" ELSE "none"
             /\ verdict' = [card |-> cards[card_i], v |-> r.verdict]
             /\ items_data' = IF r.item = None THEN items_data
                              ELSE Append(items_data, r.item[1])
             /\ stop_scraping' = (stop_scraping \/ r.stop)
             /\ IF inflight # "none"
                THEN /\ pc' = "finally"
                     /\ exc' = ExceptClause(inflight)
                     /\ UNCHANGED card_i
                ELSE IF BreakOnStop(r.stop)
                THEN /\ pc' = "finally"
                     /\ UNCHANGED <<card_i, exc>>
                ELSE /\ pc' = "for_card"
                     /\ card_i' = card_i + 1
                     /\ UNCHANGED exc
    /\ UNCHANGED <<site_vars, arg_vars, page_count, limit_count, cards,
                   f_inicio, f_fin, playwright, browser, returned,
                   clicks, other_vars>>

\* lines 237-248, reached when the for loop ends or breaks on the cap:
\* query_selector for the enabled next button
QueryNext ==
    /\ pc = "for_card"
    /\ card_i > Len(cards) \/ CapReached(items_data, limit_count)
    /\ \E ok \in BOOLEAN :
         IF ok
         THEN /\ pc' = IF NextButton THEN "click" ELSE "finally"
              /\ fault' = "none"
              /\ UNCHANGED exc
         ELSE /\ pc' = "finally"
              /\ exc' = ExceptClause("query_selector")
              /\ fault' = "query_selector"
    /\ UNCHANGED <<site_vars, arg_vars, loop_vars, items_data, f_inicio, f_fin,
                   playwright, browser, returned, verdict, clicks,
                   other_vars>>

\* lines 244-246: next_btn.click(), the settle delay, page_count += 1
ClickNext ==
    /\ pc = "click"
    /\ \E ok \in BOOLEAN :
         IF ok
         THEN /\ site_page' = site_page + 1
              /\ clicks' = clicks + 1
              /\ page_count' = page_count + 1
              /\ pc' = "while"
              /\ fault' = "none"
              /\ UNCHANGED exc
         ELSE /\ pc' = "finally"
              /\ exc' = ExceptClause("click")
              /\ fault' = "click"
              /\ UNCHANGED <<site_page, clicks, page_count>>
    /\ UNCHANGED <<listing, page_size, arg_vars, stop_scraping, limit_count,
                   cards, card_i, items_data, f_inicio, f_fin, playwright,
                   browser, returned, verdict, other_vars>>

\* lines 253-257: finally: browser.close(); then the exception goes on to the
\* caller, or the function returns items_data
Finally ==
    /\ pc = "finally"
    /\ browser' = "closed"
    /\ playwright' = "stopped"
    /\ IF exc # "none"
       THEN /\ pc' = "raised"
            /\ UNCHANGED returned
       ELSE /\ pc' = "done"
            /\ returned' = Some(items_data)
    /\ UNCHANGED <<site_vars, arg_vars, loop_vars, items_data, f_inicio, f_fin,
                   exc, verdict, fault, clicks, other_vars>>

Finished == pc \in {"done", "raised"}

Next ==
    \/ ParseDates
    \/ Launch
    \/ NewContext
    \/ Goto
    \/ WaitSelector
    \/ PageSize
    \/ QueryCards
    \/ ProcessCard
    \/ QueryNext
    \/ ClickNext
    \/ Finally

(***************************************************************************)
(* Initial states: run_scraper is called on some listing.                  *)
(***************************************************************************)
\* "dd/mm/yyyy" of a date <<year, month, day>>
DateText(d) == Strftime(<<d[1], d[2], d[3], 0, 0, 0>>)

RangeStart == <<2025, 1, 1>>
RangeEnd == <<2025, 1, 31>>

\* the day before the range, its first and last day, the day after it,
\* and a day that no calendar has
CardDates ==
    {<<2024, 12, 31>>, RangeStart, RangeEnd, <<2025, 2, 1>>, <<2025, 2, 31>>}

\* a card outside the range, or without a date, is never asked for its link
CardKinds ==
    [date : {RangeStart, RangeEnd}, link : BOOLEAN]
    \cup [date : (CardDates \ {RangeStart, RangeEnd}) \cup {None}, link : {TRUE}]

Listings == UNION {[1..n -> CardKinds] : n \in 0..MaxCards}

MaxItemsInputs == {None, Some(1), Some(2)}

\* <<fecha_inicio_str, fecha_fin_str>>: a range, a range whose start is
\* later than its end, a start that no calendar has, and an end that no
\* calendar has
RangeInputs ==
    { <<DateText(RangeStart), DateText(RangeEnd)>>,
      <<DateText(<<2025, 2, 1>>), DateText(RangeStart)>>,
      <<<<"9", "9", "/", "9", "9", "/", "2", "0", "2", "5">>, DateText(RangeEnd)>>,
      <<DateText(RangeStart), DateText(<<2025, 2, 31>>)>> }

\* the end-to-end scenario of the specification: 120 cards in descending
\* order, 1-30 after the range, 31-80 inside it, 81 on 31/12/2024
ScenarioListing ==
    [i \in 1..120 |->
        [date |-> IF i <= 30 THEN <<2025, 2, 28 - ((i - 1) \div 2)>>
                  ELSE IF i <= 80 THEN <<2025, 1, 31 - (((i - 31) * 30) \div 49)>>
                  ELSE <<2024, 12, 31 - ((i - 81) \div 2)>>,
         link |-> TRUE]]

IdleApi == [pc |-> "idle"]
IdleCall == [fn |-> "none"]

\* no second invocation
NoPeer == [pc |-> "not_called"]

InitLocalsAt(position) ==
    /\ site_page = 0
    /\ page_size = DefaultPageSize
    /\ items_data = <<>>
    /\ f_inicio = None
    /\ f_fin = None
    /\ page_count = 0
    /\ stop_scraping = FALSE
    /\ limit_count = 0
    /\ cards = <<>>
    /\ card_i = 0
    /\ playwright = "off"
    /\ browser = "none"
    /\ pc = position
    /\ exc = "none"
    /\ returned = None
    /\ verdict = [card |-> 0, v |-> "none"]
    /\ fault = "none"
    /\ clicks = 0

\* run_scraper has been called
InitLocals == InitLocalsAt("start")

\* run_scraper has not been called
InitNoCrawl ==
    /\ listing = <<>>
    /\ fecha_inicio_str = <<>>
    /\ fecha_fin_str = <<>>
    /\ max_items = None
    /\ card_faults = FALSE
    /\ InitLocalsAt("not_called")

InitSmall ==
    /\ listing \in Listings
    /\ max_items \in MaxItemsInputs
    /\ \E r \in RangeInputs : fecha_inicio_str = r[1] /\ fecha_fin_str = r[2]
    /\ card_faults = TRUE

InitScenario ==
    /\ listing = ScenarioListing
    /\ max_items = Some(50)
    /\ fecha_inicio_str = DateText(RangeStart)
    /\ fecha_fin_str = DateText(RangeEnd)
    /\ card_faults = FALSE

Init ==
    /\ InitSmall \/ InitScenario
    /\ InitLocals
    /\ api = IdleApi
    /\ call = IdleCall
    /\ peer = NoPeer

Spec == Init /\ [][Next]_vars

\* the crawl over listings in descending order of publication date, whose
\* cards can all be read
Key(d) == d[1] * 10000 + d[2] * 100 + d[3]

Descending(l) ==
    \A i, j \in 1..Len(l) :
        (i < j /\ l[i].date # None /\ l[j].date # None)
            => Key(l[i].date) >= Key(l[j].date)

InitDescending ==
    /\ \/ /\ listing \in {l \in Listings : Descending(l)}
          /\ max_items \in MaxItemsInputs
          /\ \E r \in RangeInputs : fecha_inicio_str = r[1] /\ fecha_fin_str = r[2]
       \/ /\ listing = ScenarioListing
          /\ max_items = Some(50)
          /\ fecha_inicio_str = DateText(RangeStart)
          /\ fecha_fin_str = DateText(RangeEnd)
    /\ card_faults = FALSE
    /\ InitLocals
    /\ api = IdleApi
    /\ call = IdleCall
    /\ peer = NoPeer

SpecDescending == InitDescending /\ [][Next]_vars

\* a listing that outlasts the page ceiling: no card is older than the
\* range (the first is in it, the others are newer), no page is empty, and
\* after max_paginas pages of the largest size the next-page control is
\* still enabled
LongListing ==
    [i \in 1..(max_paginas * LargestPageSize + 1) |->
        [date |-> IF i = 1 THEN RangeEnd ELSE <<2025, 2, 1>>, link |-> TRUE]]

InitCeiling ==
    /\ listing = LongListing
    /\ max_items = None
    /\ fecha_inicio_str = DateText(RangeStart)
    /\ fecha_fin_str = DateText(RangeEnd)
    /\ card_faults = FALSE
    /\ InitLocals
    /\ api = IdleApi
    /\ call = IdleCall
    /\ peer = NoPeer

\* run_scraper is at an await point or between two of them
Running == pc \notin {"not_called", "done", "raised"}

Positions ==
    {"start", "launch", "new_context", "goto", "wait_selector", "page_size",
     "while", "for_card", "click", "finally", "done", "raised"}

\* The event loop resumes run_scraper: the coroutine leaves the point it is
\* at.  Every step of Next is such a step: it changes pc or, staying in the
\* for loop, moves it to the next card.
Resume ==
    /\ Running
    /\ \E p \in Positions : pc' = p
    /\ \E i \in {card_i, card_i + 1, 1} : card_i' = i

\* An awaited Playwright call completes or raises within its timeout and
\* asyncio then resumes the coroutine, so a crawl that has not finished
\* eventually takes its next step.
SpecCeiling == InitCeiling /\ [][Next]_vars /\ WF_<<pc, card_i>>(Resume)

(***************************************************************************)
(* Two invocations of run_scraper in one event loop.  One of them runs,    *)
(* the other is suspended at an await and its locals are kept in peer.     *)
(* Each invocation has its own Playwright session, so the page it is on    *)
(* and the page size it set belong to its locals; the listing of the site  *)
(* is the same for both.                                                   *)
(***************************************************************************)
Locals ==
    [site_page |-> site_page, page_size |-> page_size,
     fecha_inicio_str |-> fecha_inicio_str, fecha_fin_str |-> fecha_fin_str,
     max_items |-> max_items, items_data |-> items_data,
     f_inicio |-> f_inicio, f_fin |-> f_fin, page_count |-> page_count,
     stop_scraping |-> stop_scraping, limit_count |-> limit_count,
     cards |-> cards, card_i |-> card_i, playwright |-> playwright,
     browser |-> browser, pc |-> pc, exc |-> exc, returned |-> returned,
     verdict |-> verdict, fault |-> fault, clicks |-> clicks]

\* the locals of an invocation that has been called and has not run yet
StartLocals(inicio, fin, limite) ==
    [site_page |-> 0, page_size |-> DefaultPageSize,
     fecha_inicio_str |-> inicio, fecha_fin_str |-> fin,
     max_items |-> limite, items_data |-> <<>>,
     f_inicio |-> None, f_fin |-> None, page_count |-> 0,
     stop_scraping |-> FALSE, limit_count |-> 0,
     cards |-> <<>>, card_i |-> 0, playwright |-> "off",
     browser |-> "none", pc |-> "start", exc |-> "none", returned |-> None,
     verdict |-> [card |-> 0, v |-> "none"], fault |-> "none", clicks |-> 0]

\* a result list shared by the invocations: the one that is resumed finds
\* the list as the other left it
SharedItems(own, other) == other

\* items_data is created by the invocation (line 105): the one that is
\* resumed finds its list as it left it
OwnItems(own, other) == own

\* The running invocation is suspended at the await it has reached, or has
\* finished, and the event loop resumes the other one.
Switch ==
    /\ peer.pc \notin {"not_called", "done", "raised"}
    /\ peer' = Locals
    /\ site_page' = peer.site_page
    /\ page_size' = peer.page_size
    /\ fecha_inicio_str' = peer.fecha_inicio_str
    /\ fecha_fin_str' = peer.fecha_fin_str
    /\ max_items' = peer.max_items
    /\ items_data' = OwnItems(peer.items_data, items_data)
    /\ f_inicio' = peer.f_inicio
    /\ f_fin' = peer.f_fin
    /\ page_count' = peer.page_count
    /\ stop_scraping' = peer.stop_scraping
    /\ limit_count' = peer.limit_count
    /\ cards' = peer.cards
    /\ card_i' = peer.card_i
    /\ playwright' = peer.playwright
    /\ browser' = peer.browser
    /\ pc' = peer.pc
    /\ exc' = peer.exc
    /\ returned' = peer.returned
    /\ verdict' = peer.verdict
    /\ fault' = peer.fault
    /\ clicks' = peer.clicks
    /\ UNCHANGED <<listing, card_faults, api, call>>

PairNext == Next \/ Switch

\* listings of the site while two crawls run: a descending one with cards
\* on both sides of the range, and one that is not in order
PairListings ==
    { << [date |-> <<2025, 2, 1>>, link |-> TRUE],
         [date |-> RangeEnd, link |-> TRUE],
         [date |-> RangeStart, link |-> TRUE],
         [date |-> <<2024, 12, 31>>, link |-> TRUE] >>,
      << [date |-> RangeStart, link |-> TRUE],
         [date |-> <<2024, 12, 31>>, link |-> TRUE],
         [date |-> RangeEnd, link |-> TRUE] >> }

PairRanges ==
    { <<DateText(RangeStart), DateText(RangeEnd)>>,
      <<DateText(<<2025, 2, 1>>), DateText(RangeStart)>> }

PairCaps == {None, Some(1)}

InitPair ==
    /\ listing \in PairListings
    /\ card_faults = FALSE
    /\ fecha_inicio_str = DateText(RangeStart)
    /\ fecha_fin_str = DateText(RangeEnd)
    /\ max_items \in PairCaps
    /\ InitLocals
    /\ api = IdleApi
    /\ call = IdleCall
    /\ \E r \in PairRanges, limite \in PairCaps :
           peer = StartLocals(r[1], r[2], limite)

SpecPair == InitPair /\ [][PairNext]_vars

(***************************************************************************)
(* POST /scrape (src/main.py; src/mi-api-seace/main.py is the "mi-api-seace"*)
(* variant, which differs in the date check and the default cap).          *)
(***************************************************************************)
\* scraper.py line 104: the parameters of run_scraper
RunScraperParams == <<"fecha_inicio_str", "fecha_fin_str", "max_items">>

\* main.py lines 27-34 and mi-api-seace/main.py line 28: the request is
\* refused with 400
DatesRefused(variant, fi, ff) ==
    IF variant = "main"
    THEN \/ Len(fi) # 10
         \/ Len(ff) # 10
         \/ fi[3] # "/"
         \/ fi[6] # "/"
         \/ ff[3] # "/"
         \/ ff[6] # "/"
    ELSE Len(fi) # 10 \/ Len(ff) # 10

\* ScrapeRequest: max_resultados defaults to 2000 (main.py line 13) or to
\* 10 (mi-api-seace/main.py line 13) when the request gives none
MaxResultados(variant, given) ==
    IF given # None THEN given[1]
    ELSE IF variant = "main" THEN 2000 ELSE 10

\* main.py lines 39-44: the positional arguments of the call of run_scraper
CallArguments(variant, request) ==
    << request.fecha_inicio, request.fecha_fin,
       MaxResultados(variant, request.max_resultados), request.incluir_cubso >>

\* main.py lines 45-48: the answer to a crawl that returned data, or raised
ScrapeResponse(raised, data) ==
    IF raised THEN [status |-> 500]
    ELSE [status |-> 200, cantidad |-> Len(data), resultados |-> data]

\* main.py lines 26-35
ValidateDates ==
    /\ api.pc = "received"
    /\ IF DatesRefused(api.variant, api.request.fecha_inicio,
                       api.request.fecha_fin)
       THEN api' = [api EXCEPT !.pc = "answered",
                               !.response = Some([status |-> 400])]
       ELSE api' = [api EXCEPT !.pc = "call"]
    /\ UNCHANGED <<site_vars, arg_vars, loop_vars, items_data, f_inicio, f_fin,
                   playwright, browser, pc, exc, returned, verdict, fault,
                   clicks, call, peer>>

\* main.py lines 37-44: the call of run_scraper.  Python binds the arguments
\* to the parameters before the body runs and raises TypeError when their
\* numbers differ; the except Exception of line 46 answers 500.
CallRunScraper ==
    /\ api.pc = "call"
    /\ LET args == CallArguments(api.variant, api.request)
       IN  IF Len(args) # Len(RunScraperParams)
           THEN /\ api' = [api EXCEPT !.pc = "answered",
                                      !.response = Some(ScrapeResponse(TRUE, <<>>))]
                /\ UNCHANGED <<fecha_inicio_str, fecha_fin_str, max_items, pc>>
           ELSE /\ api' = [api EXCEPT !.pc = "awaiting"]
                /\ fecha_inicio_str' = args[1]
                /\ fecha_fin_str' = args[2]
                /\ max_items' = Some(args[3])
                /\ pc' = "start"
    /\ UNCHANGED <<site_vars, card_faults, loop_vars, items_data, f_inicio,
                   f_fin, playwright, browser, exc, returned, verdict, fault,
                   clicks, call, peer>>

\* main.py lines 45-48: run_scraper has returned or raised.  No behaviour of
\* SpecApi enables this step, since the call above never starts a crawl.
AwaitRunScraper ==
    /\ api.pc = "awaiting"
    /\ Finished
    /\ api' = [api EXCEPT !.pc = "answered",
                          !.response = Some(ScrapeResponse(pc = "raised",
                                 IF returned = None THEN <<>> ELSE returned[1]))]
    /\ UNCHANGED <<site_vars, arg_vars, loop_vars, items_data, f_inicio, f_fin,
                   playwright, browser, pc, exc, returned, verdict, fault,
                   clicks, call, peer>>

ApiNext == ValidateDates \/ CallRunScraper

\* the date texts a request may carry: two dates, a date no calendar has, a
\* date without leading zeros, and two texts of ten characters in other shapes
RequestDates ==
    { DateText(RangeStart), DateText(RangeEnd),
      <<"9", "9", "/", "9", "9", "/", "2", "0", "2", "5">>,
      <<"1", "/", "1", "/", "2", "0", "2", "5">>,
      <<"0", "1", "-", "0", "1", "-", "2", "0", "2", "5">>,
      <<"2", "0", "2", "5", "/", "0", "1", "/", "0", "1">> }

Requests ==
    [fecha_inicio : RequestDates, fecha_fin : RequestDates,
     max_resultados : {None, Some(1)}, incluir_cubso : BOOLEAN]

InitApi ==
    /\ api \in [pc : {"received"}, variant : {"main", "mi-api-seace"},
                request : Requests, response : {None}]
    /\ call = IdleCall
    /\ peer = NoPeer
    /\ InitNoCrawl

SpecApi == InitApi /\ [][ApiNext]_vars

(***************************************************************************)
(* inferir_region applied to an entity name and a card text.               *)
(***************************************************************************)
InferirRegion ==
    /\ call.fn = "inferir_region"
    /\ call.result = None
    /\ call' = [call EXCEPT
                  !.result = Some(inferir_region(call.entidad,
                                                 call.texto_tarjeta))]
    /\ UNCHANGED <<site_vars, arg_vars, loop_vars, items_data, f_inicio, f_fin,
                   playwright, browser, pc, exc, returned, verdict, fault,
                   clicks, api, peer>>

RegionNext == InferirRegion

MaxTokens == 3          \* longest card text, in tokens

RegionTokens ==
    { <<"U", "b", "i", "c", "a", "c", "i", "ó", "n", ":", " ">>,
      <<"U", "B", "I", "C", "A", "C", "I", "O", "N">>,
      <<":">>,
      <<" ">>,
      <<"\n">>,
      <<"L", "I", "M", "A">>,
      <<"C", "u", "s", "c", "o">>,
      <<" ", "-", " ">> }

RECURSIVE Flatten(_)
Flatten(tokens) ==
    IF tokens = <<>> THEN <<>> ELSE Head(tokens) \o Flatten(Tail(tokens))

Textos == {Flatten(q) : q \in UNION {[1..n -> RegionTokens] : n \in 0..MaxTokens}}

Entidades == { <<"M", "U", "N", "I", "C", "I", "P", "A", "L", "I", "D", "A", "D", " ", "D", "E", " ", "I", "C", "A">>, <<"E", "M", "P", "R", "E", "S", "A">> }

InitRegion ==
    /\ call \in [fn : {"inferir_region"}, entidad : Entidades,
                 texto_tarjeta : Textos, result : {None}]
    /\ api = IdleApi
    /\ peer = NoPeer
    /\ InitNoCrawl

SpecRegion == InitRegion /\ [][RegionNext]_vars

(***************************************************************************)
(* extraer_tipo_exacto applied to a description.                           *)
(***************************************************************************)
ExtraerTipoExacto ==
    /\ call.fn = "extraer_tipo_exacto"
    /\ call.result = None
    /\ call' = [call EXCEPT !.result = Some(extraer_tipo_exacto(call.desc))]
    /\ UNCHANGED <<site_vars, arg_vars, loop_vars, items_data, f_inicio, f_fin,
                   playwright, browser, pc, exc, returned, verdict, fault,
                   clicks, api, peer>>

TipoNext == ExtraerTipoExacto

DescTokens ==
    { <<"O", "B", "R", "A", ":">>,
      <<"O", "b", "r", "a">>,
      <<"B", "I", "E", "N">>,
      <<"S", "e", "r", "v", "i", "c", "i", "o", ":">>,
      <<"S", "E", "R", "V", "I", "C", "I", "O">>,
      <<"C", "O", "N", "S", "U", "L", "T", "O", "R", "I", "A">>,
      <<" ", "M", "E", "J", "O", "R", "A", "M", "I", "E", "N", "T", "O">>,
      <<" ", "M", "A", "N", "T", "E", "N", "I", "M", "I", "E", "N", "T", "O">>,
      <<"A", "D", "Q", "U", "I", "S", "I", "C", "I", "O", "N", " ", "D", "E", " ", "C", "O", "M", "B", "U", "S", "T", "I", "B", "L", "E">>,
      <<"X", "Y", "Z", " ", "1", "2", "3", "4", "5">>,
      <<" ", "D", "E", " ", "P", "I", "S", "T", "A">>,
      <<" ">> }

\* the descriptions: texts of up to MaxTokens tokens, and a value that is
\* not a string
Descripciones ==
    {None} \cup
    {Some(Flatten(q)) : q \in UNION {[1..n -> DescTokens] : n \in 0..MaxTokens}}

InitTipo ==
    /\ call \in [fn : {"extraer_tipo_exacto"}, desc : Descripciones,
                 result : {None}]
    /\ api = IdleApi
    /\ peer = NoPeer
    /\ InitNoCrawl

SpecTipo == InitTipo /\ [][TipoNext]_vars

(***************************************************************************)
(* parse_fecha_regex applied to a card text.                               *)
(***************************************************************************)
ParseFechaRegex ==
    /\ call.fn = "parse_fecha_regex"
    /\ call.result = None
    /\ call' = [call EXCEPT
                  !.result = Some(parse_fecha_regex(SearchFecha(call.texto_completo)))]
    /\ UNCHANGED <<site_vars, arg_vars, loop_vars, items_data, f_inicio, f_fin,
                   playwright, browser, pc, exc, returned, verdict, fault,
                   clicks, api, peer>>

FechaNext == ParseFechaRegex

FechaTokens ==
    { <<"P", "u", "b", "l", "i", "c", "a", "c", "i", "ó", "n", ":", " ">>,
      <<"P", "U", "B", "L", "I", "C", "A", "C", "I", "O", "N", " ">>,
      <<"\n">>,
      <<"3", "1", "/", "0", "1", "/", "2", "0", "2", "5">>,
      <<"3", "1", "/", "0", "2", "/", "2", "0", "2", "5">>,
      <<"9", "9", "/", "9", "9", "/", "2", "0", "2", "5">>,
      <<"F", "e", "c", "h", "a", " ">> }

FechaTextos ==
    {Flatten(q) : q \in UNION {[1..n -> FechaTokens] : n \in 0..MaxTokens}}

InitFecha ==
    /\ call \in [fn : {"parse_fecha_regex"}, texto_completo : FechaTextos,
                 result : {None}]
    /\ api = IdleApi
    /\ peer = NoPeer
    /\ InitNoCrawl

SpecFecha == InitFecha /\ [][FechaNext]_vars

(***************************************************************************)
(* What the claims speak of, read off the listing and the arguments        *)
(* rather than off the crawl's own variables.                              *)
(***************************************************************************)
\* yyyymmdd of a text "dd/mm/yyyy"
KeyOfText(t) ==
    NumberOf(SubSeq(t, 7, 10)) * 10000 + NumberOf(SubSeq(t, 4, 5)) * 100
        + NumberOf(SubSeq(t, 1, 2))

\* the texts that write the number n of a day or a month
DayTexts(n) ==
    {<<Digits[(n \div 10) + 1], Digits[(n % 10) + 1]>>}
        \cup (IF n < 10 THEN {<<Digits[n + 1]>>} ELSE {})

\* t writes a day, a month and a four-digit year of the calendar
ValidDateText(t) ==
    /\ Len(t) >= 4
    /\ LET yy == SubSeq(t, Len(t) - 3, Len(t))
       IN  /\ AllDigits(yy)
           /\ NumberOf(yy) >= 1
           /\ \E m \in 1..12 : \E d \in 1..DaysInMonth(NumberOf(yy), m) :
                 \E dt \in DayTexts(d), mt \in DayTexts(m) :
                    t = dt \o <<"/">> \o mt \o <<"/">> \o yy

StartKey == KeyOfText(fecha_inicio_str)
EndKey == KeyOfText(fecha_fin_str)

Dated(k) == listing[k].date # None

InRange(k) ==
    /\ Dated(k)
    /\ StartKey <= Key(listing[k].date)
    /\ Key(listing[k].date) <= EndKey

\* the card a record was built from
CardOf(r) == r.url[1].path[2]

\* the record of card k
RecordOf(k) ==
    [fecha_publicacion |-> DateText(listing[k].date),
     url |-> Some([origin |-> "https://prod6.seace.gob.pe",
                   path |-> <<"/buscador-publico/contrataciones/", k>>])]

(***************************************************************************)
(* C1.  Every record of the result list has a publication date within      *)
(* [startDate 00:00:00, endDate 23:59:59], and a card dated exactly on     *)
(* startDate or on endDate is accepted: it is neither skipped as too new   *)
(* nor treated as too old.                                                 *)
(***************************************************************************)
RecordsWithinRange ==
    /\ \A i \in 1..Len(items_data) :
          /\ items_data[i].url # None
          /\ items_data[i].fecha_publicacion
                = DateText(listing[CardOf(items_data[i])].date)
          /\ StartKey <= KeyOfText(items_data[i].fecha_publicacion)
          /\ KeyOfText(items_data[i].fecha_publicacion) <= EndKey
    /\ f_inicio # None => SubSeq(f_inicio[1], 4, 6) = <<0, 0, 0>>
    /\ f_fin # None => SubSeq(f_fin[1], 4, 6) = <<23, 59, 59>>

\* the last card enumerated is dated on startDate or on endDate
BoundaryCardEnumerated ==
    /\ verdict.card # 0
    /\ Dated(verdict.card)
    /\ Key(listing[verdict.card].date) \in {StartKey, EndKey}

\* it passed the date test: it was appended, unless it has no link or could
\* not be read
BoundaryCardAccepted ==
    /\ verdict.v \in {"accepted", "no_link", "error"}
    /\ (listing[verdict.card].link /\ verdict.v # "error")
          => /\ verdict.v = "accepted"
             /\ items_data # <<>>
             /\ items_data[Len(items_data)] = RecordOf(verdict.card)
    /\ ~stop_scraping

\* the claim as stated
C1_DatesWithinRange ==
    /\ RecordsWithinRange
    /\ BoundaryCardEnumerated => BoundaryCardAccepted

\* the claim as amended: the boundary cards of a range whose start is not
\* later than its end
C1_DatesWithinOrderedRange ==
    /\ RecordsWithinRange
    /\ (BoundaryCardEnumerated /\ StartKey <= EndKey) => BoundaryCardAccepted

C1_Witness ==
    \E i, j \in 1..Len(items_data) :
        /\ items_data[i].fecha_publicacion = fecha_inicio_str
        /\ items_data[j].fecha_publicacion = fecha_fin_str
        /\ fecha_inicio_str # fecha_fin_str

(***************************************************************************)
(* C2.  Early termination is irreversible: the stop flag is never cleared, *)
(* and once a card dated before startDate has been enumerated the flag is  *)
(* set, the result list never grows again, no further card is enumerated   *)
(* and no further page is fetched.                                         *)
(***************************************************************************)
\* the last card enumerated was read and is dated before startDate
OldCardEnumerated ==
    /\ verdict.card # 0
    /\ verdict.v # "error"
    /\ Dated(verdict.card)
    /\ Key(listing[verdict.card].date) < StartKey

CrawlFrozen ==
    /\ stop_scraping
    /\ items_data' = items_data
    /\ verdict' = verdict
    /\ <<cards, card_i>>' = <<cards, card_i>>
    /\ <<page_count, site_page, clicks>>' = <<page_count, site_page, clicks>>
    /\ pc' \in {"finally", "done"}

\* the claim as stated
C2_StopIsIrreversible ==
    [][/\ stop_scraping => stop_scraping'
       /\ OldCardEnumerated => CrawlFrozen]_vars

\* the claim as amended: a card dated before startDate and not after endDate
C2_StopOnOldCardIsIrreversible ==
    [][/\ stop_scraping => stop_scraping'
       /\ (OldCardEnumerated /\ Key(listing[verdict.card].date) <= EndKey)
            => CrawlFrozen]_vars

C2_Witness ==
    /\ pc = "done"
    /\ stop_scraping
    /\ OldCardEnumerated
    /\ \E k \in 1..Len(listing) :
          /\ k > site_page * page_size
          /\ InRange(k)
          /\ listing[k].link

(***************************************************************************)
(* C3.  With a positive maxResults the result list never holds more than   *)
(* maxResults records.                                                     *)
(***************************************************************************)
C3_CapIsRespected ==
    (max_items # None /\ max_items[1] > 0)
        => /\ Len(items_data) <= max_items[1]
           /\ returned # None => Len(returned[1]) <= max_items[1]

C3_Witness ==
    /\ max_items # None
    /\ Len(items_data) = max_items[1]
    /\ pc = "for_card"
    /\ card_i <= Len(cards)
    /\ InRange(cards[card_i])
    /\ listing[cards[card_i]].link

(***************************************************************************)
(* C4.  For a listing in descending order of publication date the crawl    *)
(* returns exactly the in-range cards that carry a link, in the order of   *)
(* the listing, cut to the first maxResults; in the 120-card scenario the  *)
(* result is cards 31 to 80 and card 81 is never accepted.                 *)
(***************************************************************************)
\* the in-range linked cards of the listing, in its order
WantedCards(lo, hi) ==
    LET w == {k \in 1..Len(listing) :
                /\ Dated(k)
                /\ lo <= Key(listing[k].date)
                /\ Key(listing[k].date) <= hi
                /\ listing[k].link}
    IN  [i \in 1..Cardinality(w) |->
            CHOOSE k \in w : Cardinality({j \in w : j <= k}) = i]

Prefix(q, n) == SubSeq(q, 1, IF n < Len(q) THEN n ELSE Len(q))

Expected ==
    LET lo == StartKey
        hi == EndKey
        wanted == WantedCards(lo, hi)
        cut == IF max_items # None /\ max_items[1] > 0
               THEN Prefix(wanted, max_items[1])
               ELSE wanted
    IN  IF ValidDateText(fecha_inicio_str) /\ ValidDateText(fecha_fin_str)
        THEN [i \in 1..Len(cut) |-> RecordOf(cut[i])]
        ELSE <<>>

C4_ResultOfDescendingListing ==
    /\ pc = "done" => returned = Some(Expected)
    /\ pc = "for_card" => items_data = Prefix(Expected, Len(items_data))
    /\ (listing = ScenarioListing /\ pc = "done")
         => /\ Len(returned[1]) = 50
            /\ \A i \in 1..50 : CardOf(returned[1][i]) = 30 + i
    /\ listing = ScenarioListing
         => \A i \in 1..Len(items_data) : CardOf(items_data[i]) # 81

C4_Witness ==
    /\ pc = "done"
    /\ listing = ScenarioListing
    /\ Len(returned[1]) = 50
    /\ CardOf(returned[1][1]) = 31
    /\ CardOf(returned[1][50]) = 80

(***************************************************************************)
(* C5.  Every record of the result list has a non-empty absolute URL; a    *)
(* card without a hyperlink to a detail page is not appended, does not     *)
(* count toward the cap and is not enumerated again.                       *)
(***************************************************************************)
C5_RecordsHaveAbsoluteLink ==
    /\ \A i \in 1..Len(items_data) :
          /\ items_data[i].url # None
          /\ items_data[i].url[1].origin = "https://prod6.seace.gob.pe"
          /\ items_data[i].url[1].path[1] = "/buscador-publico/contrataciones/"
          /\ listing[CardOf(items_data[i])].link
    /\ \A i, j \in 1..Len(items_data) :
          i < j => CardOf(items_data[i]) < CardOf(items_data[j])
    /\ verdict.v = "no_link"
         => /\ ~listing[verdict.card].link
            /\ \A i \in 1..Len(items_data) : CardOf(items_data[i]) # verdict.card
            /\ (pc = "for_card" /\ card_i <= Len(cards))
                  => cards[card_i] > verdict.card

C5_Witness ==
    /\ verdict.v = "no_link"
    /\ items_data # <<>>
    /\ max_items # None
    /\ Len(items_data) < max_items[1]

(***************************************************************************)
(* C6.  The browser is closed on every exit path of a crawl once it has    *)
(* been launched: no crawl ends with a launched browser left open.         *)
(***************************************************************************)
C6_BrowserClosedOnEveryExit == Finished => browser # "open"

(***************************************************************************)
(* C7.  A failure of the listing navigation or of the next-page transition *)
(* aborts the crawl: nothing is returned, the one error goes to the        *)
(* caller, and the browser is closed before it gets there.  A failure of   *)
(* the initial selector wait or of the page-size switch aborts nothing.    *)
(***************************************************************************)
C7_FatalAndAbsorbedFailures ==
    /\ fault \in {"goto", "query_selector", "click"}
         => /\ pc \in {"finally", "raised"}
            /\ exc = fault
            /\ returned = None
            /\ pc = "raised" => browser = "closed"
    /\ fault \in {"wait_selector", "page_size"}
         => /\ exc = "none"
            /\ pc \in {"page_size", "while"}
            /\ browser = "open"
    /\ pc = "done" => exc = "none"
    /\ pc = "raised" => (exc # "none" /\ returned = None)

C7_Witness ==
    /\ pc = "raised"
    /\ fault = "click"
    /\ items_data # <<>>
    /\ browser = "closed"

(***************************************************************************)
(* C8.  When enrichment is requested, the crawl that carries it out is     *)
(* run and every record of its result receives a secondary code (a code,   *)
(* or the "no link" or "fetch error" sentinel).                            *)
(***************************************************************************)
DateShaped(t) ==
    /\ Len(t) = 10
    /\ t[3] = "/"
    /\ t[6] = "/"
    /\ \A i \in {1, 2, 4, 5, 7, 8, 9, 10} : IsDigit(t[i])

WellShaped(request) ==
    DateShaped(request.fecha_inicio) /\ DateShaped(request.fecha_fin)

C8_EnrichmentGivesEveryRecordACode ==
    (api.pc = "answered" /\ api.request.incluir_cubso /\ WellShaped(api.request))
        => /\ pc # "not_called"
           /\ api.response[1].status = 200
                => \A i \in 1..Len(api.response[1].resultados) :
                      "cubso" \in DOMAIN api.response[1].resultados[i]

(***************************************************************************)
(* C9.  POST /scrape with dates of shape dd/mm/yyyy starts one crawl with  *)
(* the request's inputs and answers 200 with the crawl's records and their *)
(* number when the crawl returns; it answers 500 only when the crawl       *)
(* itself failed; a request whose dates are not of that shape is answered  *)
(* 400 and no crawl is started.                                            *)
(***************************************************************************)
C9_EndpointStartsCrawlAndAnswers ==
    api.pc = "answered"
        => /\ WellShaped(api.request)
                => /\ pc # "not_called"
                   /\ api.response[1].status # 400
           /\ api.response[1].status = 500 => pc = "raised"
           /\ api.response[1].status = 200
                => /\ pc = "done"
                   /\ api.response[1].resultados = returned[1]
                   /\ api.response[1].cantidad = Len(returned[1])
           /\ ~WellShaped(api.request)
                => /\ api.response[1].status = 400
                   /\ pc = "not_called"

(***************************************************************************)
(* C10.  Region inference prefers the location label: when the text has    *)
(* the label UBICACION followed by a phrase that names a department, the   *)
(* result is that department; and every result is one of the 25 department *)
(* names or the unidentified sentinel.                                     *)
(***************************************************************************)
DepartmentNames == {DEPARTAMENTOS_PERU[i] : i \in 1..Len(DEPARTAMENTOS_PERU)}

C10_RegionIsALabelledDepartment ==
    (call.fn = "inferir_region" /\ call.result # None)
        => LET texto == Upper(call.entidad \o <<" ">> \o call.texto_tarjeta)
               phrase == SearchUbicacion(texto)
           IN  /\ call.result[1] \in DepartmentNames \cup {NO_IDENTIFICADO}
               /\ (phrase # None /\ NamedIn(phrase[1]) # {})
                     => /\ call.result[1] \in DepartmentNames
                        /\ Contains(phrase[1], call.result[1])

(***************************************************************************)
(* C11.  extraer_tipo_exacto returns one of Bien, Servicio, Obra,          *)
(* Consultoría, Otro for every description; an explicit prefix or marker   *)
(* decides before any keyword; without one the Work keywords are tested    *)
(* before the Service keywords and those before the Good keywords; with    *)
(* neither the result is Otro.                                             *)
(***************************************************************************)
Tipos == {"Bien", "Servicio", "Obra", "Consultoría", "Otro"}

\* the description as the tests read it
Normalised(desc) == Strip(Upper(desc[1]))

\* the types whose prefix or marker the description carries
MarkedTipos(desc) ==
    {PrefixTests[i].tipo : i \in {j \in 1..Len(PrefixTests) :
                                    PrefixTestHolds(j, Normalised(desc))}}

C11_TipoFollowsPrecedence ==
    (call.fn = "extraer_tipo_exacto" /\ call.result # None)
        => LET tipo == call.result[1]
               desc == call.desc
           IN  /\ tipo \in Tipos
               /\ desc = None => tipo = "Otro"
               /\ (desc # None /\ MarkedTipos(desc) # {})
                     => tipo \in MarkedTipos(desc)
               /\ (desc # None /\ MarkedTipos(desc) = {})
                     => tipo = IF AnyKeyword(Normalised(desc), keywords_obra)
                               THEN "Obra"
                               ELSE IF AnyKeyword(Normalised(desc), keywords_servicio)
                               THEN "Servicio"
                               ELSE IF AnyKeyword(Normalised(desc), keywords_bien)
                               THEN "Bien"
                               ELSE "Otro"
               /\ desc = Some(<<"O", "B", "R", "A", ":", " ", "M", "E", "J", "O", "R", "A", "M", "I", "E", "N", "T", "O", " ", "D", "E", " ", "P", "I", "S", "T", "A">>)
                     => tipo = "Obra"
               /\ desc = Some(<<"A", "D", "Q", "U", "I", "S", "I", "C", "I", "O", "N", " ", "D", "E", " ", "C", "O", "M", "B", "U", "S", "T", "I", "B", "L", "E">>)
                     => tipo = "Bien"
               /\ desc = Some(<<"X", "Y", "Z", " ", "1", "2", "3", "4", "5">>)
                     => tipo = "Otro"

\* a description without marker that carries a Work and a Service keyword
C11_Witness ==
    /\ call.fn = "extraer_tipo_exacto"
    /\ call.result = Some("Obra")
    /\ call.desc # None
    /\ MarkedTipos(call.desc) = {}
    /\ AnyKeyword(Normalised(call.desc), keywords_servicio)

(***************************************************************************)
(* C12.  After the cards of a page, the crawl ends without activating the  *)
(* next-page control when the stop flag is set, when the result list has   *)
(* reached the cap, or when the page had no card; the control is activated *)
(* only when none of the three holds.                                      *)
(***************************************************************************)
\* the result list holds as many records as the caller's cap allows
CapIsReached ==
    max_items # None /\ max_items[1] > 0 /\ Len(items_data) >= max_items[1]

\* this step decides to activate the next-page control, or activates it
NextControlActivated ==
    \/ pc # "click" /\ pc' = "click"
    \/ clicks' # clicks

C12_NextOnlyWhenCrawlGoesOn ==
    [][NextControlActivated
         => (~stop_scraping /\ ~CapIsReached /\ cards # <<>>)]_vars

(***************************************************************************)
(* C13.  Every crawl terminates: on a listing whose next-page control is   *)
(* always enabled, whose pages are never empty and which shows no card     *)
(* older than startDate, with no cap, the page loop ends after at most     *)
(* 300 pages have been enumerated; the page index only increases, by one   *)
(* per activation of the next-page control.                                *)
(***************************************************************************)
C13_CrawlEndsAtPageCeiling ==
    /\ <>Finished
    /\ [][<<pc, card_i>>' # <<pc, card_i>>]_vars
    /\ [](/\ page_count <= max_paginas + 1
          /\ pc = "for_card" => (page_count <= max_paginas /\ site_page = page_count))
    /\ [][pc # "page_size"
            => /\ page_count' >= page_count
               /\ page_count' # page_count
                    => (page_count' = page_count + 1 /\ clicks' = clicks + 1)
               /\ clicks' # clicks => page_count' = page_count + 1]_vars

C13_Witness ==
    /\ pc = "done"
    /\ listing = LongListing
    /\ clicks = max_paginas
    /\ page_count = max_paginas + 1
    /\ NextButton
    /\ ~stop_scraping
    /\ Len(returned[1]) = 1
    /\ verdict = [card |-> max_paginas * page_size, v |-> "too_new"]

(***************************************************************************)
(* C14.  A card whose text or markup extraction raises is skipped on its   *)
(* own: the result list, the stop flag and the page index are unchanged by *)
(* that card, the crawl goes on with the next card of the same page, and   *)
(* no failure of a card aborts the crawl or reaches the caller.            *)
(***************************************************************************)
\* this step is the for loop's body raising on a card
CardRaises == pc = "for_card" /\ fault' = "card"

C14_CardFailureIsSkipped ==
    [][/\ CardRaises
          => /\ items_data' = items_data
             /\ stop_scraping' = stop_scraping
             /\ page_count' = page_count
             /\ pc' = "for_card"
             /\ cards' = cards
             /\ card_i' = card_i + 1
             /\ exc' = "none"
       /\ exc' # "card"]_vars

\* the card after one that raised has been accepted
C14_Witness ==
    /\ verdict.v = "accepted"
    /\ verdict.card > 1
    /\ Len(items_data) = 1
    /\ card_i > 2
    /\ cards[card_i - 2] = verdict.card - 1
    /\ InRange(verdict.card - 1)
    /\ listing[verdict.card - 1].link

(***************************************************************************)
(* C15.  parse_fecha_regex never raises: when the dd/mm/yyyy token it      *)
(* finds, after the label Publicación or by the generic search, is not a   *)
(* calendar date, it returns None.                                         *)
(***************************************************************************)
\* the text holds a dd/mm/yyyy token
HasFechaToken(t) == \E q \in 1..Len(t) : FechaAt(t, q)

C15_DateExtractorNeverRaises ==
    (call.fn = "parse_fecha_regex" /\ call.result # None)
        => /\ ~call.result[1].raised
           /\ call.result[1].value # None => HasFechaToken(call.texto_completo)
           /\ (\A q \in 1..Len(call.texto_completo) :
                  FechaAt(call.texto_completo, q)
                     => Strptime(SubSeq(call.texto_completo, q, q + 9)) = None)
                => call.result[1].value = None

(***************************************************************************)
(* C16.  A card dated after endDate is skipped without ending the          *)
(* enumeration: it adds nothing to the result, does not count toward the   *)
(* cap and does not set the stop flag, so that in-range cards after it are *)
(* still accepted; only a card dated before startDate sets the stop flag.  *)
(***************************************************************************)
\* d is a date of the calendar
CalendarDate(d) == d[2] \in 1..12 /\ d[3] \in 1..DaysInMonth(d[1], d[2])

\* card k shows a date later than endDate
AfterEnd(k) ==
    /\ Dated(k)
    /\ CalendarDate(listing[k].date)
    /\ Key(listing[k].date) > EndKey

\* this step is the for loop's body reading a card to the end
CardRead == pc = "for_card" /\ verdict' # verdict /\ fault' # "card"

C16_TooNewCardIsSkipped ==
    [][/\ (CardRead /\ AfterEnd(verdict'.card))
            => /\ verdict'.v = "too_new"
               /\ items_data' = items_data
               /\ stop_scraping' = stop_scraping
               /\ page_count' = page_count
               /\ pc' = "for_card"
               /\ card_i' = card_i + 1
       /\ (stop_scraping' /\ ~stop_scraping)
            => /\ verdict'.v = "too_old"
               /\ CalendarDate(listing[verdict'.card].date)
               /\ Key(listing[verdict'.card].date) < StartKey]_vars

\* a card in the range was accepted after a card later than endDate, in a
\* crawl in which every card was read
C16_Witness ==
    ~card_faults /\ \E i \in 1..Len(items_data) :
        /\ CardOf(items_data[i]) > 1
        /\ AfterEnd(CardOf(items_data[i]) - 1)
        /\ verdict.card >= CardOf(items_data[i])
        /\ ~stop_scraping

\* what a crawl of the listing returns when it runs alone and every read
\* succeeds: the records of the linked cards in the range that come before
\* the first card earlier than the start bound, cut to the cap
AloneResult(inicio, fin, limite) ==
    LET lo == KeyOfText(inicio)
        hi == KeyOfText(fin)
        old == {k \in 1..Len(listing) :
                  /\ Dated(k)
                  /\ CalendarDate(listing[k].date)
                  /\ Key(listing[k].date) <= hi
                  /\ Key(listing[k].date) < lo}
        w == {k \in 1..Len(listing) :
                /\ Dated(k)
                /\ CalendarDate(listing[k].date)
                /\ lo <= Key(listing[k].date)
                /\ Key(listing[k].date) <= hi
                /\ listing[k].link
                /\ \A j \in old : k < j}
        wanted == [i \in 1..Cardinality(w) |->
                     CHOOSE k \in w : Cardinality({j \in w : j <= k}) = i]
        cut == IF limite # None /\ limite[1] > 0
               THEN Prefix(wanted, limite[1])
               ELSE wanted
    IN  [i \in 1..Len(cut) |-> RecordOf(cut[i])]

SameArguments ==
    /\ peer.fecha_inicio_str = fecha_inicio_str
    /\ peer.fecha_fin_str = fecha_fin_str
    /\ peer.max_items = max_items

\* both crawls have returned, one after the switch to the largest page size
\* and one at the default page size, neither having reached the ceiling
BothSizesDone ==
    /\ pc = "done"
    /\ peer.pc = "done"
    /\ {page_size, peer.page_size} = {DefaultPageSize, LargestPageSize}
    /\ page_count <= max_paginas
    /\ peer.page_count <= max_paginas

(***************************************************************************)
(* C17.  For the same descending listing, date range and cap, a crawl in   *)
(* which the switch to the largest page size succeeded and a crawl in      *)
(* which it failed return the same list of records in the same order, as   *)
(* long as the page ceiling is not reached.                                *)
(***************************************************************************)
C17_PageSizeDoesNotChangeResult ==
    (Descending(listing) /\ SameArguments /\ BothSizesDone)
        => /\ returned # None
           /\ returned = peer.returned

\* the two crawls returned the same two records of a descending listing
\* after different numbers of page turns
C17_Witness ==
    /\ Descending(listing)
    /\ SameArguments
    /\ BothSizesDone
    /\ Len(returned[1]) = 2
    /\ returned = peer.returned
    /\ clicks # peer.clicks

(***************************************************************************)
(* C18.  Two invocations of run_scraper interleaved at their await points  *)
(* are independent: the running one never changes the locals of the        *)
(* suspended one, an invocation that is resumed finds its result list,     *)
(* stop flag, page index and cap as it left them, and each returns what    *)
(* it returns when it runs alone on the same listing.                      *)
(***************************************************************************)
C18_InvocationsAreIndependent ==
    /\ [](/\ pc = "done"
             => returned = Some(AloneResult(fecha_inicio_str, fecha_fin_str,
                                            max_items))
          /\ peer.pc = "done"
             => peer.returned
                  = Some(AloneResult(peer.fecha_inicio_str,
                                     peer.fecha_fin_str, peer.max_items))
          /\ \A i \in 1..Len(items_data) :
                items_data[i]
                  \in {AloneResult(fecha_inicio_str, fecha_fin_str,
                                   max_items)[j] :
                         j \in 1..Len(AloneResult(fecha_inicio_str,
                                                  fecha_fin_str, max_items))})
    /\ [][peer' # peer => (peer' = Locals /\ Locals' = peer)]_vars

\* both crawls are inside their card loops, each with records accepted,
\* and the running one is ahead of the suspended one
C18_Witness ==
    /\ pc = "for_card"
    /\ peer.pc = "for_card"
    /\ Len(peer.items_data) > 0
    /\ Len(items_data) > Len(peer.items_data)

(***************************************************************************)
(* C19.  When startDate or endDate is not a valid dd/mm/yyyy calendar      *)
(* date, run_scraper returns an empty list, does not raise, and never      *)
(* launches a browser, navigates or enumerates a card.                     *)
(***************************************************************************)
C19_InvalidDateGivesEmptyResult ==
    (~ValidDateText(fecha_inicio_str) \/ ~ValidDateText(fecha_fin_str))
        => /\ pc \in {"start", "done"}
           /\ pc = "done" => returned = Some(<<>>)
           /\ playwright = "off"
           /\ browser = "none"
           /\ exc = "none"
           /\ site_page = 0
           /\ clicks = 0
           /\ cards = <<>>
           /\ verdict.card = 0
           /\ items_data = <<>>

\* a call with a valid startDate and 31/02/2025 as endDate has returned
\* the empty list, the site listing cards
C19_Witness ==
    /\ pc = "done"
    /\ returned = Some(<<>>)
    /\ ValidDateText(fecha_inicio_str)
    /\ ~ValidDateText(fecha_fin_str)
    /\ Len(listing) > 0
    /\ browser = "none"

\* startDate and endDate are dates and startDate is the later one
InvertedRange ==
    /\ ValidDateText(fecha_inicio_str)
    /\ ValidDateText(fecha_fin_str)
    /\ StartKey > EndKey

\* card k carries a date of the calendar
CalendarDated(k) == Dated(k) /\ CalendarDate(listing[k].date)

(***************************************************************************)
(* C20.  When startDate is later than endDate the result is empty for any  *)
(* listing: a dated card that is read is either later than the end bound   *)
(* and skipped, or earlier than the start bound and sets the stop flag,    *)
(* so the crawl ends at the first card dated on or before endDate that it  *)
(* reads, and nothing is accepted.                                         *)
(***************************************************************************)
C20_InvertedRangeGivesEmptyResult ==
    /\ [](InvertedRange
            => /\ items_data = <<>>
               /\ pc = "done" => returned = Some(<<>>))
    /\ [][(InvertedRange /\ CardRead /\ CalendarDated(verdict'.card))
            => IF Key(listing[verdict'.card].date) > EndKey
               THEN /\ verdict'.v = "too_new"
                    /\ stop_scraping' = stop_scraping
                    /\ pc' = "for_card"
               ELSE /\ verdict'.v = "too_old"
                    /\ Key(listing[verdict'.card].date) < StartKey
                    /\ stop_scraping'
                    /\ pc' = "finally"]_vars

\* with startDate 01/02/2025 and endDate 01/01/2025 the crawl went past a
\* card later than endDate, stopped at a card dated on endDate and
\* returned the empty list
C20_Witness ==
    /\ InvertedRange
    /\ Len(listing) = 2
    /\ Dated(1) /\ Dated(2)
    /\ pc = "done"
    /\ returned = Some(<<>>)
    /\ stop_scraping
    /\ verdict = [card |-> 2, v |-> "too_old"]
    /\ Key(listing[1].date) > EndKey
    /\ CalendarDate(listing[1].date)
    /\ Key(listing[2].date) = EndKey

====
